---- MODULE Spec2Model ----
(***************************************************************************)
(* The two structure-builder dialogs of ase.gui: SetupNanotube             *)
(* (ase/gui/nanotube.py) and SetupNanoparticle (ase/gui/nanoparticle.py).  *)
(*                                                                         *)
(* Every GUI callback is one action.  A callback runs to completion or is  *)
(* cut short by a Python exception; the assignments made before the raise  *)
(* are kept.  A callback is evaluated on a context record                  *)
(*   [np, exc, ret, oops, handed, built, updates, closed]                  *)
(* whose exc field is "none" until something raises; every operator below  *)
(* passes a context that already carries an exception through untouched.   *)
(*                                                                         *)
(* None is the empty sequence and an object x is the one-element sequence  *)
(* <<x>>.  Decimal quantities are integers: bond lengths and lattice       *)
(* constants in hundredths, surface energies in tenths.                    *)
(*                                                                         *)
(* The widget toolkit (ase.gui.ui, ase.gui.widgets), the structure library *)
(* (ase.build, ase.cluster, ase.data) and the members that                 *)
(* SetupNanoparticle reads but never defines in its own file are outside   *)
(* the two files; they are modelled by the role their callers give them.   *)
(* What the two files decide by themselves is modelled as written:         *)
(* nanoparticle.py calls the bare name oops, which no import binds, and    *)
(* the rows that add_direction stores hold plain numbers where makeatoms   *)
(* reads the attribute .value.                                             *)
(***************************************************************************)
EXTENDS Integers, Sequences, FiniteSets, TLC

VARIABLES tube, particle, last

vars == <<tube, particle, last>>

None == <<>>
Some(x) == <<x>>

\* row_add is offered while the direction table has fewer rows than this.
MaxRows == 2

-----------------------------------------------------------------------------
(* Inputs the user can give.                                               *)

\* Element.symbol of the nanotube dialog: a symbol, or None for an entry
\* that is no element.
TubeSymbols == {Some("C"), Some("Si"), None}
\* Values of the n and m spin boxes (ranges 1..100 and 0..100).
NInputs == {1, 5, 100}
MInputs == {0, 5, 100}
LengthInputs == {1, 2}
BondInputs == {142, 0}

\* Entries of the nanoparticle dialog's element field: C (the initial
\* entry; its reference state, diamond, is not a supported structure), Mg
\* (hcp) and Xx (no element).
ElementInputs == {"C", "Mg", "Xx"}
\* Combo box choices the user makes among the values of structure_data.
StructureInputs == {"fcc", "hcp"}
MethodInputs == {"layers", "wulff"}
\* Contents of the new-direction row: four index spin boxes, the layers
\* spin box and the surface energy spin box.
NewDirInputs ==
    { [index |-> <<0, 0, 0, 0>>, layers |-> 5, esurf |-> 10],
      [index |-> <<1, -1, 0, 0>>, layers |-> 7, esurf |-> 15],
      [index |-> <<1, 1, 0, 0>>, layers |-> 4, esurf |-> 20] }

-----------------------------------------------------------------------------
(* Handler contexts.                                                       *)

\* An Atoms object of the nanoparticle dialog is told apart by the handler
\* run that built it: "new" while that run lasts, "old" in every later one.
\* What the library was asked to build is kept in the context's built.
Aged(np) == IF np.atoms = Some("new") THEN [np EXCEPT !.atoms = Some("old")] ELSE np

Ctx(np) ==
    [np |-> np, exc |-> "none", ret |-> "None", oops |-> <<>>,
     handed |-> <<>>, built |-> <<>>, updates |-> {}, closed |-> FALSE]

Raise(c, e) == IF c.exc # "none" THEN c ELSE [c EXCEPT !.exc = e]

Return(c, v) == IF c.exc # "none" THEN c ELSE [c EXCEPT !.ret = v]

\* gui.new_atoms(atoms): the host viewer takes the structure.
new_atoms(c, atoms) ==
    IF c.exc # "none" THEN c ELSE [c EXCEPT !.handed = Append(@, atoms)]

\* ui.oops(title, text): the modal error dialog of the toolkit.
ui_oops(c, title) ==
    IF c.exc # "none" THEN c ELSE [c EXCEPT !.oops = Append(@, title)]

\* oops(...) in nanoparticle.py: the module imports Element, pybutton and
\* helpbutton from ase.gui.widgets and nothing named oops, so evaluating
\* the name raises NameError before any dialog exists.
oops(c, title) == Raise(c, "NameError")

\* self.win.close() of the nanotube dialog and self.destroy() of the
\* nanoparticle dialog: the dialog's window is closed.
close(c) == IF c.exc # "none" THEN c ELSE [c EXCEPT !.closed = TRUE]

\* What a handler run leaves for the properties to read; ret is the value
\* apply returned when the handler is apply or ok.
Outcome(win, op, c) ==
    [win |-> win, op |-> op, ret |-> IF c.exc = "none" THEN c.ret ELSE "None",
     exc |-> c.exc, oops |-> c.oops, handed |-> c.handed, built |-> c.built,
     updates |-> c.updates]

-----------------------------------------------------------------------------
(* SetupNanotube                                                           *)

\* ase.build.nanotube: the library call, kept as the arguments it is given.
nanotube(n, m, length, bond, symbol) ==
    [n |-> n, m |-> m, length |-> length, bond |-> bond, symbol |-> symbol]

\* py_template.format(...)
TubePython(n, m, length, symb, bl) ==
    [call |-> "nanotube", n |-> n, m |-> m, length |-> length, bl |-> bl,
     symb |-> symb]

TubeInit ==
    [symbol |-> Some("C"), bondlength |-> 142, n |-> 5, m |-> 5, length |-> 1,
     description |-> "", atoms |-> None, python |-> None]

make_stale(c) ==
    LET t == c.np IN
    IF t.symbol = None THEN c
    ELSE [c EXCEPT !.np.atoms =
                      Some(nanotube(t.n, t.m, t.length, t.bondlength, t.symbol[1])),
                   !.np.python =
                      Some(TubePython(t.n, t.m, t.length, t.symbol[1], t.bondlength)),
                   !.np.description = "label"]

make(c) ==
    LET t == c.np IN
    IF t.symbol = None
    THEN [c EXCEPT !.np.atoms = None, !.np.python = None, !.np.description = ""]
    ELSE [c EXCEPT !.np.atoms =
                      Some(nanotube(t.n, t.m, t.length, t.bondlength, t.symbol[1])),
                   !.np.python =
                      Some(TubePython(t.n, t.m, t.length, t.symbol[1], t.bondlength)),
                   !.np.description = "label"]

SetupNanotube_apply(c) ==
    LET c1 == make(c) IN
    IF c1.np.atoms # None
    THEN Return(new_atoms(c1, c1.np.atoms[1]), "True")
    ELSE Return(ui_oops(c1, "No valid atoms."), "False")

SetupNanotube_ok_always(c) == close(SetupNanotube_apply(c))

SetupNanotube_ok(c) ==
    LET r == SetupNanotube_apply(c) IN
    IF r.exc = "none" /\ r.ret = "True" THEN close(r) ELSE r

-----------------------------------------------------------------------------
(* SetupNanoparticle: class data                                           *)

\* structure_data: abbreviation -> 4-index, two lattice constants.
list_of_structures == <<"fcc", "bcc", "sc", "hcp", "graphite">>

needs_4index(s) == s \in {"hcp", "graphite"}

needs_2lat(s) == s \in {"hcp", "graphite"}

CubicLayers ==
    << [direction |-> <<1, 0, 0>>, layers |-> 6],
       [direction |-> <<1, 1, 0>>, layers |-> 9],
       [direction |-> <<1, 1, 1>>, layers |-> 5] >>

HexLayers ==
    << [direction |-> <<0, 0, 0, 1>>, layers |-> 5],
       [direction |-> <<1, 0, -1, 0>>, layers |-> 5] >>

default_layers(s) == IF s \in {"fcc", "bcc", "sc"} THEN CubicLayers ELSE HexLayers

\* ase.data.atomic_numbers: the entries that are chemical symbols.
ValidElements == {"C", "Mg"}

\* ase.data.reference_states for the elements of ElementInputs.
reference_states(e) ==
    IF e = "Mg" THEN [symmetry |-> "hcp", a |-> 321, c |-> 521]
    ELSE [symmetry |-> "diamond", a |-> 357, c |-> 357]

InList(x, seq) == \E i \in 1..Len(seq) : seq[i] = x

-----------------------------------------------------------------------------
(* SetupNanoparticle: methods                                              *)

\* self.update_element(): checks the element field, stores the symbol in
\* legal_element (False when it is no element) and answers whether it is one.
update_element_result(c) == c.np.element \in ValidElements

update_element(c) ==
    IF c.exc # "none" THEN c
    ELSE [c EXCEPT !.np.legal_element =
                      IF c.np.element \in ValidElements THEN c.np.element ELSE "False"]

clearatoms(c) ==
    IF c.exc # "none" THEN c
    ELSE [c EXCEPT !.np.atoms = None, !.np.pybut_python = None]

makeinfo(c) ==
    IF c.exc # "none" THEN c
    ELSE [c EXCEPT !.np.info = IF c.np.atoms = None THEN "-" ELSE "natoms"]

\* update_size_dia: size_dia_radio is not the active size radio (the
\* number-of-atoms radio is), so the method returns at its first test.
update_size_dia(c) == c

surfaces_reversed(dt) == [i \in 1..Len(dt) |-> dt[Len(dt) + 1 - i].direction]

\* [x[0] for x in self.direction_table]
surfaces_of(dt) == [i \in 1..Len(dt) |-> dt[i].direction]

\* [int(x[1].value) for ...] and [x[2].value for ...]: reading .value of a
\* row cell works for the adjustments row_add stores and raises
\* AttributeError for the plain numbers add_direction stores.
HasValue(dt) == \A i \in 1..Len(dt) : dt[i].adj

layers_of(dt) == [i \in 1..Len(dt) |-> dt[i].layers]

energies_of(dt) == [i \in 1..Len(dt) |-> dt[i].energy]

latticeconstant(np) ==
    IF needs_2lat(np.structure)
    THEN <<np.lattice_const_a, np.lattice_const_c>>
    ELSE <<np.lattice_const_a>>

\* self.factory[struct](...) and wulff_construction(...): the library
\* calls, kept as the arguments they are given.
Cluster(builder, element, surfaces, values, struct, lc) ==
    [builder |-> builder, element |-> element, surfaces |-> surfaces,
     values |-> values, structure |-> struct, latticeconstant |-> lc]

makeatoms(c) ==
    IF c.exc # "none" THEN c
    ELSE LET c1 == update_element(c) IN
         IF ~update_element_result(c1)
         THEN Return(makeinfo(clearatoms(c1)), "False")
         ELSE LET np == c1.np
                  dt == np.direction_table
                  surfaces == surfaces_of(dt)
              IN IF ~HasValue(dt) THEN Raise(c1, "AttributeError")
                 ELSE LET values == IF np.method = "layers" THEN layers_of(dt)
                                    ELSE energies_of(dt)
                          c2 == IF np.method = "layers" THEN c1 ELSE update_size_dia(c1)
                          atoms == Cluster(IF np.method = "layers" THEN "factory"
                                           ELSE "wulff_construction",
                                           np.legal_element, surfaces, values,
                                           np.structure, latticeconstant(c2.np))
                          c3 == [c2 EXCEPT !.np.atoms = Some("new"),
                                           !.np.pybut_python = Some(np.method),
                                           !.built = Append(@, atoms)]
                      IN Return(makeinfo(c3), "None")

UpdateRecord(c, r) ==
    [no_update |-> c.np.no_update, auto |-> c.np.auto, exc |-> r.exc,
     before |-> c.np.atoms,
     changed |-> (r.np # c.np \/ r.handed # c.handed \/ r.oops # c.oops),
     handed |-> Len(r.handed) - Len(c.handed),
     atoms |-> r.np.atoms, python |-> r.np.pybut_python]

Logged(c, r) == [r EXCEPT !.updates = @ \cup {UpdateRecord(c, r)}]

update_keeps_atoms(c) ==
    IF c.exc # "none" THEN c
    ELSE IF c.np.no_update THEN Logged(c, c)
    ELSE LET c1 == update_element(c)
             c2 == IF c1.np.auto
                   THEN LET m == makeatoms(c1) IN
                        IF m.exc = "none" /\ m.np.atoms # None
                        THEN new_atoms(m, m.np.atoms[1])
                        ELSE m
                   ELSE c1
         IN Logged(c, Return(makeinfo(c2), "None"))

update(c) ==
    IF c.exc # "none" THEN c
    ELSE IF c.np.no_update THEN Logged(c, c)
    ELSE LET c1 == update_element(c)
             c2 == IF c1.np.auto
                   THEN LET m == makeatoms(c1) IN
                        IF m.exc = "none" /\ m.np.atoms # None
                        THEN new_atoms(m, m.np.atoms[1])
                        ELSE m
                   ELSE clearatoms(c1)
         IN Logged(c, Return(makeinfo(c2), "None"))

\* self.update_direction_table(): redraws the rows of the table from
\* direction_table and, like every other change of a parameter, ends in
\* update().
update_direction_table(c) == update(c)

add_direction(c, direction, layers, energy) ==
    IF c.exc # "none" THEN c
    ELSE update([c EXCEPT !.np.direction_table =
                    Append(@, [direction |-> direction, layers |-> layers,
                               energy |-> energy, adj |-> FALSE])])

RECURSIVE add_directions(_, _)
add_directions(c, rows) ==
    IF rows = <<>> THEN c
    ELSE add_directions(add_direction(c, rows[1].direction, rows[1].layers, 10),
                        Tail(rows))

default_direction_table(c) ==
    IF c.exc # "none" THEN c
    ELSE add_directions([c EXCEPT !.np.direction_table = <<>>],
                        default_layers(c.np.structure))

update_structure(c) ==
    IF c.exc # "none" THEN c
    ELSE LET s == c.np.structure IN
         IF s # c.np.old_structure
         THEN LET old4 == c.np.fourindex
                  c1 == [c EXCEPT !.np.fourindex = needs_4index(s)]
                  c2 == IF c1.np.fourindex # old4
                        THEN default_direction_table(c1)
                        ELSE c1
                  c3 == IF c2.exc # "none" THEN c2
                        ELSE [c2 EXCEPT !.np.old_structure = s]
              IN update(c3)
         ELSE update(c)

update_gui_method(c) == update(update_direction_table(c))

NewIndex(np) ==
    IF np.fourindex THEN np.newdir.index ELSE SubSeq(np.newdir.index, 1, 3)

AllZero(idx) == \A i \in 1..Len(idx) : idx[i] = 0

NewRow(np) ==
    [direction |-> NewIndex(np), layers |-> np.newdir.layers,
     energy |-> np.newdir.esurf, adj |-> TRUE]

row_add_first(c) ==
    LET idx == NewIndex(c.np) IN
    IF AllZero(idx) THEN oops(c, "At least one index must be non-zero")
    ELSE IF Len(idx) = 4 /\ idx[1] + idx[2] + idx[3] # 0
    THEN oops(c, "Invalid hexagonal indices")
    ELSE update_direction_table(
             [c EXCEPT !.np.direction_table = <<NewRow(c.np)>> \o @])

row_add(c) ==
    LET idx == NewIndex(c.np) IN
    IF AllZero(idx) THEN oops(c, "At least one index must be non-zero")
    ELSE IF Len(idx) = 4 /\ idx[1] + idx[2] + idx[3] # 0
    THEN oops(c, "Invalid hexagonal indices")
    ELSE update_direction_table(
             [c EXCEPT !.np.direction_table = Append(@, NewRow(c.np))])

\* rows are counted from 0, as in the source
row_delete(c, row) ==
    LET dt == c.np.direction_table IN
    IF row >= Len(dt) THEN Raise(c, "IndexError")
    ELSE update_direction_table(
             [c EXCEPT !.np.direction_table =
                          SubSeq(dt, 1, row) \o SubSeq(dt, row + 2, Len(dt))])

row_swap_next(c, row) ==
    LET dt == c.np.direction_table IN
    IF row + 1 >= Len(dt) THEN Raise(c, "IndexError")
    ELSE update_direction_table(
             [c EXCEPT !.np.direction_table =
                          [dt EXCEPT ![row + 1] = dt[row + 2], ![row + 2] = dt[row + 1]]])

set_structure_data(c) ==
    LET c1 == update_element(c) IN
    IF ~update_element_result(c1) THEN oops(c1, "Invalid element.")
    ELSE LET ref == reference_states(c1.np.legal_element)
             structure == ref.symmetry
         IN IF ~InList(structure, list_of_structures)
            THEN oops(c1, "Unsupported or unknown structure")
            ELSE LET c2 == [c1 EXCEPT !.np.structure = structure,
                                      !.np.lattice_const_a = ref.a,
                                      !.np.fourindex = needs_4index(structure)]
                 IN IF c2.np.fourindex
                    THEN Return([c2 EXCEPT !.np.lattice_const_c = ref.c], "None")
                    ELSE Return(c2, "None")

SetupNanoparticle_apply(c) ==
    LET c1 == makeatoms(c) IN
    IF c1.exc # "none" THEN c1
    ELSE IF c1.np.atoms # None
    THEN Return(new_atoms(c1, c1.np.atoms[1]), "True")
    ELSE Return(oops(c1, "No valid atoms."), "False")

SetupNanoparticle_ok(c) ==
    LET r == SetupNanoparticle_apply(c) IN
    IF r.exc = "none" /\ r.ret = "True" THEN close(r) ELSE r

\* The fields as __init__ has set them when it reaches
\* default_direction_table() at line 174; old_structure is read at line 309
\* before the file has assigned it and holds no structure then.
ParticleBlank ==
    [atoms |-> None, no_update |-> TRUE, legal_element |-> "False",
     element |-> "C", structure |-> list_of_structures[1],
     fourindex |-> needs_4index(list_of_structures[1]), old_structure |-> "None",
     lattice_const_a |-> 300, lattice_const_c |-> 300, method |-> "layers",
     direction_table |-> <<>>, newdir |-> [index |-> <<0, 0, 0, 0>>, layers |-> 5, esurf |-> 10],
     info |-> "-", auto |-> FALSE, pybut_python |-> None]

SetupNanoparticle_init ==
    LET c1 == default_direction_table(Ctx(ParticleBlank))
        c2 == update_structure(c1)
        c3 == update_gui_method(c2)
    IN [c3 EXCEPT !.np.no_update = FALSE, !.np.auto = FALSE]

-----------------------------------------------------------------------------
(* The host opens one dialog at a time: the dialogs share no state, so     *)
(* their interleavings add nothing.  A closed dialog is None.              *)

NoOutcome == Outcome("none", "none", Ctx(None))

Init == tube = None /\ particle = None /\ last = NoOutcome

(* ---- nanotube dialog ---- *)

OpenNanotube ==
    /\ tube = None /\ particle = None
    /\ tube' = Some(TubeInit)
    /\ last' = Outcome("nanotube", "__init__", Ctx(TubeInit))
    /\ UNCHANGED particle

TubeDone(op, r) ==
    /\ tube' = IF r.closed THEN None ELSE Some(r.np)
    /\ last' = Outcome("nanotube", op, r)
    /\ UNCHANGED particle

\* Element('C', self.make)
TubeElementChanged ==
    /\ tube # None
    /\ \E s \in TubeSymbols :
          TubeDone("make", make([Ctx(tube[1]) EXCEPT !.np.symbol = s]))

\* ui.SpinBox(5, 1, 100, 1, self.make)
TubeNChanged ==
    /\ tube # None
    /\ \E v \in NInputs :
          TubeDone("make", make([Ctx(tube[1]) EXCEPT !.np.n = v]))

\* ui.SpinBox(5, 0, 100, 1, self.make)
TubeMChanged ==
    /\ tube # None
    /\ \E v \in MInputs :
          TubeDone("make", make([Ctx(tube[1]) EXCEPT !.np.m = v]))

\* ui.SpinBox(1, 1, 100, 1, self.make)
TubeLengthChanged ==
    /\ tube # None
    /\ \E v \in LengthInputs :
          TubeDone("make", make([Ctx(tube[1]) EXCEPT !.np.length = v]))

\* ui.SpinBox(1.42, 0.0, 10.0, 0.01, self.make)
TubeBondChanged ==
    /\ tube # None
    /\ \E v \in BondInputs :
          TubeDone("make", make([Ctx(tube[1]) EXCEPT !.np.bondlength = v]))

TubeApply ==
    /\ tube # None
    /\ TubeDone("apply", SetupNanotube_apply(Ctx(tube[1])))

TubeOk ==
    /\ tube # None
    /\ TubeDone("ok", SetupNanotube_ok(Ctx(tube[1])))

(* ---- nanoparticle dialog ---- *)

OpenNanoparticle ==
    /\ tube = None /\ particle = None
    /\ particle' = Some(SetupNanoparticle_init.np)
    /\ last' = Outcome("nanoparticle", "__init__", SetupNanoparticle_init)
    /\ UNCHANGED tube

ParticleDone(op, r) ==
    /\ particle' = IF r.closed THEN None ELSE Some(r.np)
    /\ last' = Outcome("nanoparticle", op, r)
    /\ UNCHANGED tube

\* Element('C', self.update)
ElementChanged ==
    /\ particle # None
    /\ \E e \in ElementInputs :
          /\ e # particle[1].element
          /\ ParticleDone("update",
                          update([Ctx(Aged(particle[1])) EXCEPT !.np.element = e]))

\* ui.Button(_('Get structure'), self.set_structure_data)
GetStructure ==
    /\ particle # None
    /\ ParticleDone("set_structure_data", set_structure_data(Ctx(Aged(particle[1]))))

\* ui.ComboBox(labels, values, self.update_structure)
StructureSelected ==
    /\ particle # None
    /\ \E s \in StructureInputs :
          /\ s # particle[1].structure
          /\ ParticleDone("update_structure",
                          update_structure([Ctx(Aged(particle[1])) EXCEPT !.np.structure = s]))

\* ui.ComboBox([...], ['layers', 'wulff'], self.update_gui_method)
MethodSelected ==
    /\ particle # None
    /\ \E m \in MethodInputs :
          /\ m # particle[1].method
          /\ ParticleDone("update_gui_method",
                          update_gui_method([Ctx(Aged(particle[1])) EXCEPT !.np.method = m]))

\* The spin box of a table row made by add_direction: its callback is
\* self.update and nothing copies its value into direction_table.
RowSpinChanged ==
    /\ particle # None
    /\ particle[1].direction_table # <<>>
    /\ ParticleDone("update", update(Ctx(Aged(particle[1]))))

\* ui.CheckButton(_('Automatic Apply')): no callback.
AutoToggled ==
    /\ particle # None
    /\ ParticleDone("auto", [Ctx(Aged(particle[1])) EXCEPT !.np.auto = ~@])

\* The spin boxes of the new-direction row: no callback.
NewDirectionEntered ==
    /\ particle # None
    /\ \E d \in NewDirInputs :
          /\ d # particle[1].newdir
          /\ ParticleDone("newdir", [Ctx(Aged(particle[1])) EXCEPT !.np.newdir = d])

\* ui.Button(_('Add'), self.row_add)
RowAdd ==
    /\ particle # None
    /\ Len(particle[1].direction_table) < MaxRows
    /\ ParticleDone("row_add", row_add(Ctx(Aged(particle[1]))))

\* ui.Button(_('Delete'), self.row_delete, i): active while the table has
\* a second row.
RowDelete ==
    /\ particle # None
    /\ Len(particle[1].direction_table) >= 2
    /\ \E row \in 0..(Len(particle[1].direction_table) - 1) :
          ParticleDone("row_delete", row_delete(Ctx(Aged(particle[1])), row))

\* ui.Button(_('Up'), self.row_swap_next, i - 1) for i > 0 and
\* ui.Button(_('Down'), self.row_swap_next, i) for every row but the last.
RowSwapNext ==
    /\ particle # None
    /\ \E row \in 0..(Len(particle[1].direction_table) - 2) :
          ParticleDone("row_swap_next", row_swap_next(Ctx(Aged(particle[1])), row))

ParticleApply ==
    /\ particle # None
    /\ ParticleDone("apply", SetupNanoparticle_apply(Ctx(Aged(particle[1]))))

ParticleOk ==
    /\ particle # None
    /\ ParticleDone("ok", SetupNanoparticle_ok(Ctx(Aged(particle[1]))))

Next ==
    \/ OpenNanotube
    \/ TubeElementChanged
    \/ TubeNChanged
    \/ TubeMChanged
    \/ TubeLengthChanged
    \/ TubeBondChanged
    \/ TubeApply
    \/ TubeOk
    \/ OpenNanoparticle
    \/ ElementChanged
    \/ GetStructure
    \/ StructureSelected
    \/ MethodSelected
    \/ RowSpinChanged
    \/ AutoToggled
    \/ NewDirectionEntered
    \/ RowAdd
    \/ RowDelete
    \/ RowSwapNext
    \/ ParticleApply
    \/ ParticleOk

Spec == Init /\ [][Next]_vars

-----------------------------------------------------------------------------
(* Properties                                                              *)

TubeStep(op) == last.win = "nanotube" /\ last.op = op

ParticleStep(op) == last.win = "nanoparticle" /\ last.op = op

Applied == last.exc = "none" /\ last.ret = "True"

Refused(title) ==
    last.exc = "none" /\ last.ret = "False" /\ last.oops = <<title>>

\* C1: SetupNanoparticle.apply hands self.atoms to gui.new_atoms exactly
\* once and returns True when the rebuilt atoms are not None; otherwise it
\* hands nothing over, shows 'No valid atoms.' and returns False.
C1_ApplyContract ==
    (ParticleStep("apply") /\ particle # None) =>
        IF particle[1].atoms # None
        THEN Applied /\ last.handed = <<particle[1].atoms[1]>> /\ last.oops = <<>>
        ELSE Refused("No valid atoms.") /\ last.handed = <<>>

\* C2: SetupNanotube.apply hands the nanotube built from the current
\* inputs to gui.new_atoms once and returns True exactly when the element
\* symbol is not None; with a None symbol it hands nothing over, shows
\* 'No valid atoms.' and returns False.
C2_TubeApply ==
    (TubeStep("apply") /\ tube # None) =>
        LET t == tube[1] IN
        IF t.symbol # None
        THEN /\ Applied
             /\ last.handed = <<nanotube(t.n, t.m, t.length, t.bondlength, t.symbol[1])>>
             /\ last.oops = <<>>
        ELSE Refused("No valid atoms.") /\ last.handed = <<>>

\* The element field was emptied after a nanotube had been built, and
\* Apply refused.
C2_Witness ==
    /\ TubeStep("apply") /\ tube # None
    /\ tube[1].symbol = None /\ tube[1].n = 100
    /\ last.ret = "False"

\* C3: in both dialogs OK closes the window if and only if apply returned
\* True, and a window that OK closed has handed its structure to
\* gui.new_atoms.
C3_OkCloses ==
    /\ TubeStep("ok") =>
          /\ (tube = None) <=> Applied
          /\ (tube = None) => Len(last.handed) = 1
    /\ ParticleStep("ok") =>
          /\ (particle = None) <=> Applied
          /\ (particle = None) => Len(last.handed) = 1

\* OK closed the nanoparticle dialog after a build.
C3_Witness == ParticleStep("ok") /\ particle = None /\ last.built # <<>>

\* The index tuple row_add reads from the new-direction row.
EnteredIndex(p) ==
    IF p.fourindex THEN p.newdir.index
    ELSE <<p.newdir.index[1], p.newdir.index[2], p.newdir.index[3]>>

Inconsistent(p) ==
    LET idx == EnteredIndex(p) IN
    \/ \A i \in 1..Len(idx) : idx[i] = 0
    \/ p.fourindex /\ idx[1] + idx[2] + idx[3] # 0

RowAddStep ==
    particle # None /\ particle' # None /\ last'.win = "nanoparticle" /\ last'.op = "row_add"

\* C4: row_add with all indices zero, or with four indices whose first
\* three do not sum to zero, shows an error dialog and leaves the direction
\* table unchanged.
C4_RowAddRejects ==
    [][(RowAddStep /\ Inconsistent(particle[1])) =>
          /\ Len(last'.oops) = 1
          /\ particle'[1].direction_table = particle[1].direction_table]_vars

C6_BuildOrder ==
    (last.win = "nanoparticle" /\ particle # None) =>
        \A k \in 1..Len(last.built) :
            LET b == last.built[k]
                dt == particle[1].direction_table
            IN /\ Len(b.surfaces) = Len(dt)
               /\ Len(b.values) = Len(dt)
               /\ \A i \in 1..Len(dt) :
                     /\ b.surfaces[i] = dt[i].direction
                     /\ b.values[i] = IF b.builder = "factory" THEN dt[i].layers
                                      ELSE dt[i].energy

\* [Down] swapped two rows with different directions and values, and the
\* swapped table was built.
C6_Witness ==
    /\ ParticleStep("row_swap_next") /\ particle # None
    /\ last.built # <<>>
    /\ LET dt == particle[1].direction_table IN
       /\ Len(dt) >= 2
       /\ dt[1].direction # dt[2].direction
       /\ dt[1].layers # dt[2].layers

GetStructureStep ==
    /\ particle # None /\ particle' # None
    /\ last'.win = "nanoparticle" /\ last'.op = "set_structure_data"

Supported(e) == InList(reference_states(e).symmetry, list_of_structures)

\* C7: [Get structure] with an invalid element shows 'Invalid element.',
\* with an element without a supported reference structure shows
\* 'Unsupported or unknown structure', and in both cases leaves the
\* structure, the lattice constants, fourindex and the direction table
\* unchanged.
C7_GetStructureRejects ==
    [][(GetStructureStep
          /\ (particle[1].element \notin ValidElements \/ ~Supported(particle[1].element))) =>
          /\ last'.oops = IF particle[1].element \notin ValidElements
                          THEN <<"Invalid element.">>
                          ELSE <<"Unsupported or unknown structure">>
          /\ particle'[1].structure = particle[1].structure
          /\ particle'[1].lattice_const_a = particle[1].lattice_const_a
          /\ particle'[1].lattice_const_c = particle[1].lattice_const_c
          /\ particle'[1].fourindex = particle[1].fourindex
          /\ particle'[1].direction_table = particle[1].direction_table]_vars

\* C8: every nanotube built by make has a roll-up vector (n, m) with m <= n.
C8_RollUp ==
    (tube # None /\ tube[1].atoms # None) => tube[1].atoms[1].m <= tube[1].atoms[1].n

DefaultTable(s) ==
    [i \in 1..Len(default_layers(s)) |->
        [direction |-> default_layers(s)[i].direction,
         layers |-> default_layers(s)[i].layers, energy |-> 10, adj |-> FALSE]]

\* C9: update_structure replaces the direction table by the default table
\* of the new structure when the new structure and the old one differ in
\* index family, and leaves the table unchanged otherwise.
C9_TableFollowsFamily ==
    [][(particle # None /\ particle' # None /\ last'.win = "nanoparticle"
          /\ last'.op = "update_structure") =>
          LET s == particle'[1].structure
              old == particle[1].old_structure
          IN IF needs_4index(s) # needs_4index(old)
             THEN particle'[1].direction_table = DefaultTable(s)
             ELSE particle'[1].direction_table = particle[1].direction_table]_vars

====
